---- MODULE Spec2Model ----
(***************************************************************************)
(* The inventory views of lib/dockerregistry/types.go: RegInvImage,        *)
(* RegInvImageDigest, RegInvImageTag, Manifest, and the five conversion    *)
(* functions between them.                                                 *)
(*                                                                         *)
(* A Go map is a function with a finite domain; a Go slice is a sequence.  *)
(* `range` over a slice visits it in index order; `range` over a map       *)
(* visits its keys in an order the language leaves unspecified, so every   *)
(* conversion takes the iteration order of each map it ranges over as an   *)
(* argument, and the actions draw that order from all permutations.        *)
(* A nil map or slice and an empty one are not told apart.                 *)
(***************************************************************************)
EXTENDS Naturals, Sequences, FiniteSets

\* ---------------------------------------------------------------- bounds
\* Most entries of the Images list of an input Manifest.
MaxImages == 2
\* Most digest entries, over all its images, of an input.
MaxDigests == 2
\* Most tags, over all its tag sequences, of an input.
MaxTags == 2

\* The ImageName, Digest and Tag strings the inputs are built from.
ImageNames == {"imageA", "imageB"}
Digests == {"digestX", "digestY"}
Tags == {"v1", "v2"}

\* ------------------------------------------------------------- the types
\* make(map[K]V): a map with no keys.
EmptyMap == [k \in {} |-> k]

\* m[k] = v on a Go map: adds the key or overwrites its value.
Store(map, k, v) == [x \in (DOMAIN map) \cup {k} |-> IF x = k THEN v ELSE map[x]]

\* type ImageDigest struct { ImageName; Digest }
ImageDigest(imageName, digest) == [ImageName |-> imageName, Digest |-> digest]

\* type ImageTag struct { ImageName; Tag }
ImageTag(imageName, tag) == [ImageName |-> imageName, Tag |-> tag]

RECURSIVE KeyedTagSlices(_, _, _)
\* map[K]TagSlice: the maps from at most e of the keys K to a TagSlice
\* (a []Tag, here a sequence over Tags) that hold at most t tags in all.
KeyedTagSlices(K, e, t) ==
    IF K = {} \/ e = 0 THEN {EmptyMap}
    ELSE LET k == CHOOSE x \in K : TRUE
         IN KeyedTagSlices(K \ {k}, e, t) \cup
            UNION {{Store(f, k, s) : f \in KeyedTagSlices(K \ {k}, e - 1, t - n), s \in [1..n -> Tags]} : n \in 0..t}

RECURSIVE TagCount(_)
\* The number of tags a map[K]TagSlice holds.
TagCount(f) ==
    IF DOMAIN f = {} THEN 0
    ELSE LET k == CHOOSE x \in DOMAIN f : TRUE
         IN Len(f[k]) + TagCount([x \in (DOMAIN f) \ {k} |-> f[x]])

\* type RegInvImageDigest map[ImageDigest]TagSlice
RegInvImageDigest == KeyedTagSlices([ImageName : ImageNames, Digest : Digests], MaxDigests, MaxTags)

\* type RegInvImage map[ImageName]DigestTags, DigestTags map[Digest]TagSlice:
\* the digest entries of a RegInvImageDigest under their image names, and
\* any further image names with an empty DigestTags.
RegInvImage ==
    {[i \in {k.ImageName : k \in DOMAIN r} \cup X |->
        [d \in {k.Digest : k \in {x \in DOMAIN r : x.ImageName = i}} |-> r[ImageDigest(i, d)]]] :
            r \in RegInvImageDigest, X \in SUBSET ImageNames}

RECURSIVE ImageLists(_, _, _)
\* []Image, Image struct { ImageName; Dmap DigestTags }: the lists of at
\* most n entries with at most e digest entries and t tags in all.
ImageLists(n, e, t) ==
    {<<>>} \cup
    (IF n = 0 THEN {}
     ELSE UNION {{<<[ImageName |-> i, Dmap |-> d]>> \o rest :
                     i \in ImageNames, rest \in ImageLists(n - 1, e - Cardinality(DOMAIN d), t - TagCount(d))} :
                        d \in KeyedTagSlices(Digests, e, t)})

\* type Manifest struct { ...; Images []Image }. Registries and
\* ServiceAccount are read by no conversion and are left out.
Manifest == {[Images |-> l] : l \in ImageLists(MaxImages, MaxDigests, MaxTags)}

\* ------------------------------------------------------ iteration orders
\* All orders in which `range` may visit the keys S of a map.
Perms(S) == {s \in [1..Cardinality(S) -> S] : \A i, j \in 1..Cardinality(S) : s[i] = s[j] => i = j}

\* Orders for the nested loops over a RegInvImage: the order of the image
\* names, and for each image name the order of its digests.
RIOrders(ri) == {[images |-> io, digests |-> do] : io \in Perms(DOMAIN ri), do \in {f \in [DOMAIN ri -> UNION {Perms(DOMAIN ri[i]) : i \in DOMAIN ri}] : \A i \in DOMAIN ri : f[i] \in Perms(DOMAIN ri[i])}}

\* Orders for the loops over a Manifest: Images is a slice (index order);
\* only each entry's Dmap is a map.
MOrders(m) == {f \in [DOMAIN m.Images -> UNION ({Perms(DOMAIN m.Images[k].Dmap) : k \in DOMAIN m.Images} \cup {{}})] : \A k \in DOMAIN m.Images : f[k] \in Perms(DOMAIN m.Images[k].Dmap)}

\* Orders for the loop over a RegInvImageDigest.
RIIDOrders(riid) == Perms(DOMAIN riid)

\* ------------------------------------------- Manifest.ToRegInvImageDigest
RECURSIVE M_Digest_DigestLoop(_, _, _, _)
\* for digest, tagArray := range image.Dmap { riid[id] = tagArray }
M_Digest_DigestLoop(riid, image, dseq, j) ==
    IF j > Len(dseq) THEN riid
    ELSE M_Digest_DigestLoop(Store(riid, ImageDigest(image.ImageName, dseq[j]), image.Dmap[dseq[j]]), image, dseq, j + 1)

RECURSIVE M_Digest_ImageLoop(_, _, _, _)
\* for _, image := range m.Images { ... }
M_Digest_ImageLoop(riid, m, ord, k) ==
    IF k > Len(m.Images) THEN riid
    ELSE M_Digest_ImageLoop(M_Digest_DigestLoop(riid, m.Images[k], ord[k], 1), m, ord, k + 1)

M_ToRegInvImageDigest(m, ord) == M_Digest_ImageLoop(EmptyMap, m, ord, 1)

\* ---------------------------------------------- Manifest.ToRegInvImageTag
RECURSIVE M_Tag_TagLoop_NoImageName(_, _, _, _, _)
\* M_Tag_TagLoop with `it.ImageName = image.ImageName` left out: the key
\* keeps the zero value of ImageName.
M_Tag_TagLoop_NoImageName(riit, imageName, digest, tagArray, i) ==
    IF i > Len(tagArray) THEN riit
    ELSE M_Tag_TagLoop_NoImageName(Store(riit, ImageTag("", tagArray[i]), digest), imageName, digest, tagArray, i + 1)

RECURSIVE M_Tag_TagLoop(_, _, _, _, _)
\* for _, tag := range tagArray { riit[it] = digest }
M_Tag_TagLoop(riit, imageName, digest, tagArray, i) ==
    IF i > Len(tagArray) THEN riit
    ELSE M_Tag_TagLoop(Store(riit, ImageTag(imageName, tagArray[i]), digest), imageName, digest, tagArray, i + 1)

RECURSIVE M_Tag_DigestLoop(_, _, _, _)
\* for digest, tagArray := range image.Dmap { ... }
M_Tag_DigestLoop(riit, image, dseq, j) ==
    IF j > Len(dseq) THEN riit
    ELSE M_Tag_DigestLoop(M_Tag_TagLoop(riit, image.ImageName, dseq[j], image.Dmap[dseq[j]], 1), image, dseq, j + 1)

RECURSIVE M_Tag_ImageLoop(_, _, _, _)
\* for _, image := range m.Images { ... }
M_Tag_ImageLoop(riit, m, ord, k) ==
    IF k > Len(m.Images) THEN riit
    ELSE M_Tag_ImageLoop(M_Tag_DigestLoop(riit, m.Images[k], ord[k], 1), m, ord, k + 1)

M_ToRegInvImageTag(m, ord) == M_Tag_ImageLoop(EmptyMap, m, ord, 1)

\* ---------------------------------------- RegInvImage.ToRegInvImageDigest
RECURSIVE RI_Digest_DigestLoop_SkipUntagged(_, _, _, _, _)
\* RI_Digest_DigestLoop with a digest that has no tags skipped.
RI_Digest_DigestLoop_SkipUntagged(riid, imageName, digestTags, dseq, j) ==
    IF j > Len(dseq) THEN riid
    ELSE RI_Digest_DigestLoop_SkipUntagged(
            IF digestTags[dseq[j]] = <<>> THEN riid ELSE Store(riid, ImageDigest(imageName, dseq[j]), digestTags[dseq[j]]),
            imageName, digestTags, dseq, j + 1)

RECURSIVE RI_Digest_DigestLoop_NoImageName(_, _, _, _, _)
\* RI_Digest_DigestLoop with `id.ImageName = imageName` left out.
RI_Digest_DigestLoop_NoImageName(riid, imageName, digestTags, dseq, j) ==
    IF j > Len(dseq) THEN riid
    ELSE RI_Digest_DigestLoop_NoImageName(Store(riid, ImageDigest("", dseq[j]), digestTags[dseq[j]]), imageName, digestTags, dseq, j + 1)

RECURSIVE RI_Digest_DigestLoop(_, _, _, _, _)
\* for digest, tagArray := range digestTags { riid[id] = tagArray }
RI_Digest_DigestLoop(riid, imageName, digestTags, dseq, j) ==
    IF j > Len(dseq) THEN riid
    ELSE RI_Digest_DigestLoop(Store(riid, ImageDigest(imageName, dseq[j]), digestTags[dseq[j]]), imageName, digestTags, dseq, j + 1)

RECURSIVE RI_Digest_ImageLoop(_, _, _, _)
\* for imageName, digestTags := range ri { ... }
RI_Digest_ImageLoop(riid, ri, ord, k) ==
    IF k > Len(ord.images) THEN riid
    ELSE RI_Digest_ImageLoop(RI_Digest_DigestLoop(riid, ord.images[k], ri[ord.images[k]], ord.digests[ord.images[k]], 1), ri, ord, k + 1)

RI_ToRegInvImageDigest(ri, ord) == RI_Digest_ImageLoop(EmptyMap, ri, ord, 1)

\* ------------------------------------------- RegInvImage.ToRegInvImageTag
RECURSIVE RI_Tag_TagLoop_NoImageName(_, _, _, _, _)
\* RI_Tag_TagLoop with `it.ImageName = imageName` left out.
RI_Tag_TagLoop_NoImageName(riit, imageName, digest, tagArray, i) ==
    IF i > Len(tagArray) THEN riit
    ELSE RI_Tag_TagLoop_NoImageName(Store(riit, ImageTag("", tagArray[i]), digest), imageName, digest, tagArray, i + 1)

RECURSIVE RI_Tag_TagLoop(_, _, _, _, _)
\* for _, tag := range tagArray { riit[it] = digest }
RI_Tag_TagLoop(riit, imageName, digest, tagArray, i) ==
    IF i > Len(tagArray) THEN riit
    ELSE RI_Tag_TagLoop(Store(riit, ImageTag(imageName, tagArray[i]), digest), imageName, digest, tagArray, i + 1)

\* RI_Tag_DigestLoop leaving the loop after the first digest it visits.
RI_Tag_DigestLoop_FirstOnly(riit, imageName, digestTags, dseq, j) ==
    IF j > Len(dseq) THEN riit
    ELSE RI_Tag_TagLoop(riit, imageName, dseq[j], digestTags[dseq[j]], 1)

RECURSIVE RI_Tag_DigestLoop(_, _, _, _, _)
\* for digest, tagArray := range digestTags { ... }
RI_Tag_DigestLoop(riit, imageName, digestTags, dseq, j) ==
    IF j > Len(dseq) THEN riit
    ELSE RI_Tag_DigestLoop(RI_Tag_TagLoop(riit, imageName, dseq[j], digestTags[dseq[j]], 1), imageName, digestTags, dseq, j + 1)

RECURSIVE RI_Tag_ImageLoop(_, _, _, _)
\* for imageName, digestTags := range ri { ... }
RI_Tag_ImageLoop(riit, ri, ord, k) ==
    IF k > Len(ord.images) THEN riit
    ELSE RI_Tag_ImageLoop(RI_Tag_DigestLoop(riit, ord.images[k], ri[ord.images[k]], ord.digests[ord.images[k]], 1), ri, ord, k + 1)

RI_ToRegInvImageTag(ri, ord) == RI_Tag_ImageLoop(EmptyMap, ri, ord, 1)

\* ------------------------------------- RegInvImageDigest.ToRegInvImageTag
RECURSIVE RIID_Tag_TagLoop_DropLast(_, _, _, _)
\* RIID_Tag_TagLoop stopping one tag short of the end of tagArray.
RIID_Tag_TagLoop_DropLast(riit, imageDigest, tagArray, i) ==
    IF i >= Len(tagArray) THEN riit
    ELSE RIID_Tag_TagLoop_DropLast(Store(riit, ImageTag(imageDigest.ImageName, tagArray[i]), imageDigest.Digest), imageDigest, tagArray, i + 1)

RECURSIVE RIID_Tag_TagLoop(_, _, _, _)
\* for _, tag := range tagArray { riit[it] = imageDigest.Digest }
RIID_Tag_TagLoop(riit, imageDigest, tagArray, i) ==
    IF i > Len(tagArray) THEN riit
    ELSE RIID_Tag_TagLoop(Store(riit, ImageTag(imageDigest.ImageName, tagArray[i]), imageDigest.Digest), imageDigest, tagArray, i + 1)

RECURSIVE RIID_Tag_KeyLoop(_, _, _, _)
\* for imageDigest, tagArray := range riid { ... }
RIID_Tag_KeyLoop(riit, riid, ord, k) ==
    IF k > Len(ord) THEN riit
    ELSE RIID_Tag_KeyLoop(RIID_Tag_TagLoop(riit, ord[k], riid[ord[k]], 1), riid, ord, k + 1)

RIID_ToRegInvImageTag(riid, ord) == RIID_Tag_KeyLoop(EmptyMap, riid, ord, 1)

\* ----------------------------------------------------------- the machine
\* A caller holds one source of registry state, a RegInvImage (kind
\* "RegInvImage") or a Manifest (kind "Manifest"), and calls the
\* conversions on it in any order and any number of times. Each of riid,
\* riit and riit2 holds what the latest call of one conversion returned:
\*   riid   source.ToRegInvImageDigest()
\*   riit   source.ToRegInvImageTag()
\*   riit2  riid.ToRegInvImageTag()
VARIABLES kind, ri, m, riid, riit, riit2

vars == <<kind, ri, m, riid, riit, riit2>>

\* No call has returned yet.
NoResult == [returned |-> FALSE, val |-> EmptyMap]

\* A call returned the map v. The conversions have a single result, the
\* map: no error value, and no statement of theirs can panic.
Returned(v) == [returned |-> TRUE, val |-> v]

Init ==
    /\ riid = NoResult
    /\ riit = NoResult
    /\ riit2 = NoResult
    /\ \/ kind = "RegInvImage" /\ ri \in RegInvImage /\ m = [Images |-> <<>>]
       \/ kind = "Manifest" /\ m \in Manifest /\ ri = EmptyMap

CallManifestToRegInvImageDigest ==
    /\ kind = "Manifest"
    /\ \E ord \in MOrders(m) : riid' = Returned(M_ToRegInvImageDigest(m, ord))
    /\ UNCHANGED <<kind, ri, m, riit, riit2>>

CallManifestToRegInvImageTag ==
    /\ kind = "Manifest"
    /\ \E ord \in MOrders(m) : riit' = Returned(M_ToRegInvImageTag(m, ord))
    /\ UNCHANGED <<kind, ri, m, riid, riit2>>

CallRegInvImageToRegInvImageDigest ==
    /\ kind = "RegInvImage"
    /\ \E ord \in RIOrders(ri) : riid' = Returned(RI_ToRegInvImageDigest(ri, ord))
    /\ UNCHANGED <<kind, ri, m, riit, riit2>>

CallRegInvImageToRegInvImageTag ==
    /\ kind = "RegInvImage"
    /\ \E ord \in RIOrders(ri) : riit' = Returned(RI_ToRegInvImageTag(ri, ord))
    /\ UNCHANGED <<kind, ri, m, riid, riit2>>

\* CallRegInvImageDigestToRegInvImageTag with the conversion deleting the
\* zero-tag keys of the map it ranges over.
CallRegInvImageDigestToRegInvImageTag_Pruning ==
    /\ riid.returned
    /\ \E ord \in RIIDOrders(riid.val) : riit2' = Returned(RIID_ToRegInvImageTag(riid.val, ord))
    /\ riid' = Returned([k \in {x \in DOMAIN riid.val : riid.val[x] # <<>>} |-> riid.val[k]])
    /\ UNCHANGED <<kind, ri, m, riit>>

CallRegInvImageDigestToRegInvImageTag ==
    /\ riid.returned
    /\ \E ord \in RIIDOrders(riid.val) : riit2' = Returned(RIID_ToRegInvImageTag(riid.val, ord))
    /\ UNCHANGED <<kind, ri, m, riid, riit>>

Next ==
    \/ CallManifestToRegInvImageDigest
    \/ CallManifestToRegInvImageTag
    \/ CallRegInvImageToRegInvImageDigest
    \/ CallRegInvImageToRegInvImageTag
    \/ CallRegInvImageDigestToRegInvImageTag

Spec == Init /\ [][Next]_vars

\* ------------------------------------------------- what the claims speak of
\* The tags of a TagSlice.
TagsOf(tagArray) == {tagArray[i] : i \in DOMAIN tagArray}

\* Some tag of the image is listed under two different digests of digestTags.
DmapConflict(digestTags) ==
    \E d1, d2 \in DOMAIN digestTags : d1 # d2 /\ TagsOf(digestTags[d1]) \cap TagsOf(digestTags[d2]) # {}

\* The RegInvImage would assign one ImageTag key two different digests.
RI_Conflict(r) == \E i \in DOMAIN r : DmapConflict(r[i])

\* The Manifest would assign one ImageTag key two different digests, within
\* one Images entry or across two entries of the same ImageName.
M_Conflict(mf) ==
    \E k1, k2 \in DOMAIN mf.Images :
        /\ mf.Images[k1].ImageName = mf.Images[k2].ImageName
        /\ \E d1 \in DOMAIN mf.Images[k1].Dmap, d2 \in DOMAIN mf.Images[k2].Dmap :
              d1 # d2 /\ TagsOf(mf.Images[k1].Dmap[d1]) \cap TagsOf(mf.Images[k2].Dmap[d2]) # {}

\* The RegInvImageDigest would assign one ImageTag key two different digests.
RIID_Conflict(r) ==
    \E k1, k2 \in DOMAIN r :
        k1.ImageName = k2.ImageName /\ k1.Digest # k2.Digest /\ TagsOf(r[k1]) \cap TagsOf(r[k2]) # {}

\* Every Dmap of the Manifest, taken alone, keeps each tag under one digest.
M_DmapsWellFormed(mf) == \A k \in DOMAIN mf.Images : ~DmapConflict(mf.Images[k].Dmap)

\* The Images entries have pairwise distinct ImageNames.
M_DistinctNames(mf) ==
    \A k1, k2 \in DOMAIN mf.Images : mf.Images[k1].ImageName = mf.Images[k2].ImageName => k1 = k2

\* The RegInvImage that maps each entry's ImageName to its Dmap.
M_AsRegInvImage(mf) ==
    [i \in {mf.Images[k].ImageName : k \in DOMAIN mf.Images} |->
        mf.Images[CHOOSE k \in DOMAIN mf.Images : mf.Images[k].ImageName = i].Dmap]

\* The Manifest that lists the images of a RegInvImage in the order p.
RI_AsManifest(r, p) == [Images |-> [k \in DOMAIN p |-> [ImageName |-> p[k], Dmap |-> r[p[k]]]]]

\* The (image name, digest) entries of a RegInvImage.
RI_Entries(r) == {k \in [ImageName : DOMAIN r, Digest : Digests] : k.Digest \in DOMAIN r[k.ImageName]}

\* The (image name, digest) entries of a Manifest.
M_Entries(mf) ==
    {k \in [ImageName : ImageNames, Digest : Digests] :
        \E e \in DOMAIN mf.Images : mf.Images[e].ImageName = k.ImageName /\ k.Digest \in DOMAIN mf.Images[e].Dmap}

\* The (image name, tag) pairs of a RegInvImage: the tag occurs in the tag
\* sequence of some digest of the image.
RI_ImageTags(r) ==
    {k \in [ImageName : DOMAIN r, Tag : Tags] : \E d \in DOMAIN r[k.ImageName] : k.Tag \in TagsOf(r[k.ImageName][d])}

\* No image name of the RegInvImage maps to an empty DigestTags.
RI_NoEmptyImage(r) == \A i \in DOMAIN r : DOMAIN r[i] # {}

\* Every digest of the RegInvImageDigest has at least one tag.
RIID_AllTagged(r) == \A k \in DOMAIN r : r[k] # <<>>

\* What the conversions can return for each input, over every iteration
\* order.
RI_DigestViews == [r \in RegInvImage |-> {RI_ToRegInvImageDigest(r, o) : o \in RIOrders(r)}]
RIID_TagViews == [r \in RegInvImageDigest |-> {RIID_ToRegInvImageTag(r, o) : o \in RIIDOrders(r)}]

\* ------------------------------------------------------------- the claims

\* C1 (as claimed): a ToRegInvImageTag conversion of a source that would
\* assign one ImageTag key two different digests raises a consistency error,
\* that is, it does not return a map.
C1_ConflictRaisesError ==
    /\ (kind = "RegInvImage" /\ RI_Conflict(ri)) => ~riit.returned
    /\ (kind = "Manifest" /\ M_Conflict(m)) => ~riit.returned
    /\ (riid.returned /\ RIID_Conflict(riid.val)) => ~riit2.returned

\* C2 (as claimed): for any RegInvImage, converting to RegInvImageDigest and
\* then to RegInvImageTag yields the same map as converting directly.
C2_RoundTrip ==
    (kind = "RegInvImage" /\ riit.returned /\ riit2.returned) => riit2.val = riit.val

\* C3: ToRegInvImageDigest filters nothing and invents nothing: the keys of
\* the result are exactly the (image name, digest) entries of the source,
\* zero-tag digests included.
C3_NoFiltering ==
    riid.returned =>
        /\ kind = "RegInvImage" => DOMAIN riid.val = RI_Entries(ri)
        /\ kind = "Manifest" => DOMAIN riid.val = M_Entries(m)

C3_Witness ==
    /\ riid.returned
    /\ \E k \in DOMAIN riid.val : riid.val[k] = <<>>
    /\ \E k \in DOMAIN riid.val : riid.val[k] # <<>>

\* C8 (as claimed): for any Manifest, duplicate ImageNames included,
\* converting to RegInvImageDigest and then to RegInvImageTag yields the
\* same map as converting directly.
C8_ManifestRoundTrip ==
    (kind = "Manifest" /\ riit.returned /\ riit2.returned) => riit2.val = riit.val

\* C9: for any RegInvImage the keys of ToRegInvImageTag's result are exactly
\* the (image name, tag) pairs whose tag occurs under some digest of the
\* image, and each value is a digest of that image listing that tag (the
\* only such digest when the tag is under one digest).
C9_TagView ==
    (kind = "RegInvImage" /\ riit.returned) =>
        /\ DOMAIN riit.val = RI_ImageTags(ri)
        /\ \A k \in DOMAIN riit.val :
              /\ riit.val[k] \in DOMAIN ri[k.ImageName]
              /\ k.Tag \in TagsOf(ri[k.ImageName][riit.val[k]])

C9_Witness ==
    /\ kind = "RegInvImage"
    /\ riit.returned
    /\ RI_Conflict(ri)

\* The RegInvImage derived back from a RegInvImageDigest: its keys grouped
\* by image name.
RIID_GroupByImage(r) ==
    [i \in {k.ImageName : k \in DOMAIN r} |->
        [d \in {k.Digest : k \in {x \in DOMAIN r : x.ImageName = i}} |-> r[ImageDigest(i, d)]]]

\* The keys of a RegInvImageDigest derived back from a RegInvImageTag.
RIIT_ImageDigests(t) == {ImageDigest(k.ImageName, t[k]) : k \in DOMAIN t}

\* C4 (as claimed): two different RegInvImage values never convert to the
\* same RegInvImageDigest.
C4_Lossless ==
    (kind = "RegInvImage" /\ riid.returned /\ ~riit.returned /\ ~riit2.returned) =>
        \A r2 \in RegInvImage : r2 # ri => riid.val \notin RI_DigestViews[r2]

\* C4 (amended): a RegInvImage in which no image name maps to an empty
\* DigestTags is derived back from its RegInvImageDigest by grouping the keys
\* by image name, so no other such RegInvImage converts to the same
\* RegInvImageDigest.
C4_LosslessNoEmptyImage ==
    (kind = "RegInvImage" /\ riid.returned /\ RI_NoEmptyImage(ri)) =>
        RIID_GroupByImage(riid.val) = ri

C4_Witness ==
    /\ kind = "RegInvImage"
    /\ riid.returned
    /\ RI_NoEmptyImage(ri)
    /\ DOMAIN ri = ImageNames
    /\ \E k \in DOMAIN riid.val : riid.val[k] = <<>>

\* C5 (as claimed): two RegInvImageDigest values that keep every tag under
\* one digest per image and have different key sets never convert to the
\* same RegInvImageTag.
C5_Lossless ==
    (riit2.returned /\ ~RIID_Conflict(riid.val) /\ kind = "RegInvImage" /\ ~riit.returned) =>
        \A r2 \in RegInvImageDigest :
            (~RIID_Conflict(r2) /\ DOMAIN r2 # DOMAIN riid.val) => riit2.val \notin RIID_TagViews[r2]

\* C5 (amended): the key set of a RegInvImageDigest that keeps every tag
\* under one digest per image and has no zero-tag digest is derived back from
\* its RegInvImageTag, so no other such RegInvImageDigest with a different
\* key set converts to the same RegInvImageTag.
C5_LosslessAllTagged ==
    (riit2.returned /\ ~RIID_Conflict(riid.val) /\ RIID_AllTagged(riid.val)) =>
        /\ RIIT_ImageDigests(riit2.val) = DOMAIN riid.val
        /\ (kind = "RegInvImage" /\ ~riit.returned) =>
              \A r2 \in RegInvImageDigest :
                  (~RIID_Conflict(r2) /\ RIID_AllTagged(r2) /\ DOMAIN r2 # DOMAIN riid.val) =>
                      riit2.val \notin RIID_TagViews[r2]

C5_Witness ==
    /\ riit2.returned
    /\ ~RIID_Conflict(riid.val)
    /\ RIID_AllTagged(riid.val)
    /\ Cardinality(DOMAIN riid.val) >= 2
    /\ Cardinality(DOMAIN riit2.val) >= 2

\* The (image name, tag) pairs of a Manifest and of a RegInvImageDigest.
M_ImageTags(mf) ==
    {k \in [ImageName : ImageNames, Tag : Tags] :
        \E e \in DOMAIN mf.Images : /\ mf.Images[e].ImageName = k.ImageName
                                    /\ \E d \in DOMAIN mf.Images[e].Dmap : k.Tag \in TagsOf(mf.Images[e].Dmap[d])}

RIID_ImageTags(r) ==
    {k \in [ImageName : ImageNames, Tag : Tags] : \E x \in DOMAIN r : x.ImageName = k.ImageName /\ k.Tag \in TagsOf(r[x])}

\* C6: every call leaves the value it was called on as it was (the source
\* for the four conversions of a RegInvImage or Manifest, riid for
\* RegInvImageDigest.ToRegInvImageTag) and changes nothing but its own
\* result; and after any number of calls each returned map has the keys of
\* the value it was built from, no more and no less.
C6_Pure ==
    [][/\ ri' = ri /\ m' = m /\ kind' = kind
       /\ riit2' # riit2 => (riid' = riid /\ riit' = riit)
       /\ riit' # riit => (riid' = riid /\ riit2' = riit2)
       /\ riid' # riid => (riit' = riit /\ riit2' = riit2)
       /\ riid'.returned => DOMAIN riid'.val = (IF kind = "RegInvImage" THEN RI_Entries(ri) ELSE M_Entries(m))
       /\ riit'.returned => DOMAIN riit'.val = (IF kind = "RegInvImage" THEN RI_ImageTags(ri) ELSE M_ImageTags(m))
       /\ riit2'.returned => DOMAIN riit2'.val = RIID_ImageTags(riid.val)]_vars

C6_Witness ==
    /\ riid.returned /\ riit.returned /\ riit2.returned
    /\ riid.val # EmptyMap
    /\ riit2.val # riit.val

\* C7: for a Manifest whose entries have pairwise distinct ImageNames, the
\* Manifest conversions return what the RegInvImage conversions return for
\* the RegInvImage that maps each entry's ImageName to its Dmap; and what a
\* RegInvImage conversion returns, the Manifest conversions return for every
\* Manifest that lists the same images.
C7_SameRules ==
    /\ (kind = "Manifest" /\ M_DistinctNames(m)) =>
          /\ riid.returned => riid.val \in {RI_ToRegInvImageDigest(M_AsRegInvImage(m), o) : o \in RIOrders(M_AsRegInvImage(m))}
          /\ riit.returned => riit.val \in {RI_ToRegInvImageTag(M_AsRegInvImage(m), o) : o \in RIOrders(M_AsRegInvImage(m))}
    /\ kind = "RegInvImage" =>
          \A p \in Perms(DOMAIN ri) :
              /\ riid.returned => riid.val \in {M_ToRegInvImageDigest(RI_AsManifest(ri, p), o) : o \in MOrders(RI_AsManifest(ri, p))}
              /\ riit.returned => riit.val \in {M_ToRegInvImageTag(RI_AsManifest(ri, p), o) : o \in MOrders(RI_AsManifest(ri, p))}

C7_Witness ==
    /\ kind = "Manifest"
    /\ M_DistinctNames(m)
    /\ Len(m.Images) = 2
    /\ riid.returned /\ riit.returned
    /\ Cardinality(DOMAIN riid.val) >= 2
    /\ Cardinality(DOMAIN riit.val) >= 2

\* C10: when the source keeps each tag under one digest per image (each Dmap
\* of a Manifest, each DigestTags of a RegInvImage, the keys of one image
\* name of a RegInvImageDigest), every iteration order of every conversion
\* gives the map that was returned.
C10_Deterministic ==
    /\ (kind = "RegInvImage" /\ ~RI_Conflict(ri)) =>
          /\ riid.returned => \A o \in RIOrders(ri) : RI_ToRegInvImageDigest(ri, o) = riid.val
          /\ riit.returned => \A o \in RIOrders(ri) : RI_ToRegInvImageTag(ri, o) = riit.val
    /\ (kind = "Manifest" /\ M_DmapsWellFormed(m)) =>
          /\ riid.returned => \A o \in MOrders(m) : M_ToRegInvImageDigest(m, o) = riid.val
          /\ riit.returned => \A o \in MOrders(m) : M_ToRegInvImageTag(m, o) = riit.val
    /\ (riid.returned /\ riit2.returned /\ ~RIID_Conflict(riid.val)) =>
          \A o \in RIIDOrders(riid.val) : RIID_ToRegInvImageTag(riid.val, o) = riit2.val

C10_Witness ==
    /\ kind = "RegInvImage"
    /\ ~RI_Conflict(ri)
    /\ \E i \in DOMAIN ri : DOMAIN ri[i] = Digests /\ \A d \in Digests : ri[i][d] # <<>>
    /\ riid.returned /\ riit.returned /\ riit2.returned
    /\ Cardinality(DOMAIN riit.val) >= 2

====
